---- MODULE Spec2Model ----
(***************************************************************************)
(* A model of sdkit's generation entry point, generate_images, and of the  *)
(* diffusers backend it delegates to, make_with_diffusers                  *)
(* (sdkit/generate/image_generator.py).                                    *)
(*                                                                         *)
(* The shared serving context (context.models, the cached init-image       *)
(* latent and mask tensor, _last_lora_alpha, the hypernetwork strength,    *)
(* the pipelines' schedulers), the model weights' net LoRA delta and the   *)
(* global random source are the state; each request is a thread walking   *)
(* through the statements of generate_images.  Collaborators that live     *)
(* outside the file (the prompt encoder, the samplers, the VAE, the        *)
(* diffusers pipelines, apply_lora_model) are modelled at their boundary:  *)
(* what they are given, what they return, and that they may raise.         *)
(*                                                                         *)
(* save_dicts (sdkit/utils/file_utils.py), which writes the metadata of    *)
(* the images generated, is modelled next to it: its arguments, its        *)
(* position in its loops and the files it has written are the state.       *)
(***************************************************************************)
EXTENDS Integers, Sequences, FiniteSets, TLC

\* ------------------------------------------------------------- bounds
MaxRequests == 1      \* calls of generate_images in a behaviour of Spec
MaxSeqRequests == 2   \* calls of generate_images in a behaviour of SeqSpec
MaxConcRequests == 2  \* calls of generate_images in a behaviour of ConcSpec
MaxLoraRequests == 3  \* calls of generate_images in a behaviour of LoraSpec
MaxOutputs == 2       \* num_outputs ranges over 1..MaxOutputs
MaxAlpha == 1         \* lora_alpha and hypernetwork_strength range over 0..MaxAlpha
MaxSaves == 1         \* calls of save_dicts in a behaviour of SaveSpec
MaxEntries == 2       \* save_dicts is given 0..MaxEntries entries

\* ------------------------------------------------------------- values
Threads == {"t1", "t2"}

None == "None"
NoTensor == <<>>

Images == {None, "img"}
Masks == {None, "mask"}
\* (width, height): multiples of 8, of 64 or not
Sizes == { <<512, 512>>, <<520, 584>> }
Seeds == {42, 7}

\* sampler names: one known to both registries, one to neither
SamplerNames == {"euler_a", "bogus"}

PipelineKinds == {"txt2img", "img2img", "inpainting"}

\* the keys context.models may hold
ModelTypes == {"stable-diffusion", "hypernetwork", "lora"}

\* context.models["stable-diffusion"] on the diffusers backend: a dict of the
\* pipelines the loaded model exposes plus, normally, its "compel" prompt
\* encoder; with it the class of the inpainting pipeline
ModelVariants ==
    { [keys |-> {"txt2img", "img2img", "inpainting", "compel"}, inpaint |-> "InpaintLegacy"],
      [keys |-> {"txt2img", "img2img", "inpainting", "compel"}, inpaint |-> "Inpaint"],
      [keys |-> {"inpainting", "compel"}, inpaint |-> "Inpaint"],
      [keys |-> {"inpainting"}, inpaint |-> "Inpaint"],
      [keys |-> {"txt2img", "img2img", "compel"}, inpaint |-> None] }

NativeModel == [keys |-> {}, inpaint |-> None]

\* the native registry (sdkit.generate.sampler.make_samples) and the diffusers
\* registry (diffusers_samplers.samplers)
NativeSamplers == {"euler_a"}
DiffusersSamplers == {"euler_a"}

\* the arguments of one generate_images call
Requests ==
    { r \in [ seed : Seeds,
              width : {s[1] : s \in Sizes}, height : {s[2] : s \in Sizes},
              num_outputs : 1..MaxOutputs,
              init_image : Images, init_image_mask : Masks,
              preserve_init_image_color_profile : BOOLEAN,
              sampler_name : SamplerNames,
              hypernetwork_strength : 0..MaxAlpha, lora_alpha : 0..MaxAlpha ] :
        << r.width, r.height >> \in Sizes }

\* sequences of requests draw from the requests that differ in what one
\* request can leave behind for the next: the seed, the source image and its
\* size, the strengths
SeqRequests ==
    { r \in Requests : /\ r.num_outputs = 1
                       /\ r.sampler_name = "euler_a"
                       /\ r.preserve_init_image_color_profile = FALSE
                       /\ r.init_image_mask = None }

\* concurrent behaviours draw from the requests that differ only in what the
\* shared state depends on
ConcRequests ==
    { r \in Requests : /\ r.seed = 42
                       /\ r.num_outputs = 1
                       /\ r.sampler_name = "euler_a"
                       /\ r.hypernetwork_strength = 0
                       /\ r.preserve_init_image_color_profile = FALSE
                       /\ r.init_image_mask = None }

\* adapter behaviours draw from the requests that differ in what the adapter
\* patch depends on: the strength, and whether the request gets that far
\* (its sampler, and text-to-image or inpainting)
LoraRequests ==
    { r \in Requests : /\ r.seed = 42
                       /\ r.width = 512
                       /\ r.num_outputs = 1
                       /\ r.hypernetwork_strength = 0
                       /\ r.preserve_init_image_color_profile = FALSE
                       /\ (r.init_image = None) <=> (r.init_image_mask = None) }

VARIABLES
    test_diffusers,          \* context.test_diffusers
    models,                  \* the keys of context.models
    sd_model,                \* context.models["stable-diffusion"] (diffusers)
    init_image_latent,       \* context.init_image_latent
    init_image_mask_tensor,  \* context.init_image_mask_tensor
    has_last_lora_alpha,     \* hasattr(context, "_last_lora_alpha")
    last_lora_alpha,         \* context._last_lora_alpha
    lora_delta,              \* net LoRA strength patched into the model weights
    hypernetwork_strength,   \* context.models["hypernetwork"]["hypernetwork_strength"]
    scheduler,               \* the scheduler attribute of each pipeline
    rng,                     \* the seed of the global random source
    pc,                      \* where each request is in generate_images
    req,                     \* the arguments of each request
    local,                   \* the locals of each request and what it did
    served,                  \* calls of generate_images so far
    save,                    \* the arguments and locals of the save_dicts call
    fs                       \* the directories and files on disk

vars == << test_diffusers, models, sd_model, init_image_latent,
           init_image_mask_tensor, has_last_lora_alpha, last_lora_alpha,
           lora_delta, hypernetwork_strength, scheduler, rng, pc, req, local,
           served, save, fs >>

config == << test_diffusers, models, sd_model >>
latents == << init_image_latent, init_image_mask_tensor >>
lora == << has_last_lora_alpha, last_lora_alpha, lora_delta >>
storage == << save, fs >>
generation == << test_diffusers, models, sd_model, init_image_latent,
                 init_image_mask_tensor, has_last_lora_alpha, last_lora_alpha,
                 lora_delta, hypernetwork_strength, scheduler, rng, pc, req,
                 local, served >>

DefaultRequest ==
    [ seed |-> 42, width |-> 512, height |-> 512, num_outputs |-> 1,
      init_image |-> None, init_image_mask |-> None,
      preserve_init_image_color_profile |-> FALSE,
      sampler_name |-> "euler_a",
      hypernetwork_strength |-> 0, lora_alpha |-> 0 ]

\* the locals of a call at its entry, and the record of what it has done
LocalInit ==
    [ exc |-> None,            \* the exception propagating, if any
      returned |-> FALSE,      \* a return statement was executed
      images |-> <<>>,         \* images, the list returned
      batch |-> <<>>,          \* what generate_fn returned
      passes |-> 0,            \* iterations of the sampling loop done
      seeded |-> FALSE,        \* seed_everything was called
      precision |-> FALSE,     \* precision_scope was selected
      hn_written |-> FALSE,    \* the hypernetwork strength was written
      encoded |-> FALSE,       \* a prompt encoder was called
      cond |-> FALSE,          \* get_cond_and_uncond was called
      generate_fn |-> None,    \* txt2img or img2img (native)
      need_latent |-> FALSE,   \* img2img found no cached latent
      populated |-> FALSE,     \* img2img stored a latent on the context
      sampled |-> FALSE,       \* make_samples was called
      latent_arg |-> NoTensor, \* params["init_image_latent"]
      mask_arg |-> NoTensor,   \* params["mask"]
      transfers |-> <<>>,      \* the indexes apply_color_profile ran on
      operation |-> None,      \* operation_to_apply (diffusers)
      cmd |-> <<>>,            \* cmd (diffusers)
      undone |-> 0,            \* the strength the LoRA undo was called with
      lora_calls |-> 0,        \* calls of apply_lora_model
      sched_set |-> FALSE,     \* a pipeline's scheduler was assigned
      invoked |-> None,        \* the pipeline called (diffusers)
      pre |-> <<>> ]           \* the shared state the call found

\* no save_dicts call in progress
SaveInit ==
    [ pc |-> "idle", calls |-> 0,
      entries |-> <<>>, dir_path |-> None, file_name |-> None,
      output_format |-> None, file_format |-> None,
      formats |-> <<>>,        \* output_format after line 68
      i |-> 0, j |-> 1,        \* the positions of the two loops
      exc |-> None,            \* the exception propagating, if any
      written |-> <<>> ]       \* the files this call opened for writing

Init ==
    /\ test_diffusers \in BOOLEAN
    /\ models \in SUBSET ModelTypes
    /\ sd_model \in IF test_diffusers /\ "stable-diffusion" \in models
                    THEN ModelVariants ELSE {NativeModel}
    /\ init_image_latent = NoTensor
    /\ init_image_mask_tensor = NoTensor
    /\ has_last_lora_alpha = FALSE
    /\ last_lora_alpha = 0
    /\ lora_delta = 0
    /\ hypernetwork_strength = 0
    /\ scheduler = [k \in PipelineKinds |-> "default"]
    /\ rng = 0
    /\ pc = [t \in Threads |-> "idle"]
    /\ req = [t \in Threads |-> DefaultRequest]
    /\ local = [t \in Threads |-> LocalInit]
    /\ served = 0
    /\ save = SaveInit
    /\ fs = [dirs |-> {}, files |-> {}]

\* ------------------------------------------------------------- helpers

\* an exception leaves the try block: control goes to the finally clause
Raise(t, e) ==
    /\ pc' = [pc EXCEPT ![t] = "finally"]
    /\ local' = [local EXCEPT ![t].exc = e]

Goto(t, label) == pc' = [pc EXCEPT ![t] = label]

\* Python's truth value of an init_image / init_image_mask argument
Truthy(x) == x # None

\* the state of the context that outlives a request
SharedState ==
    [ has_last_lora_alpha |-> has_last_lora_alpha,
      last_lora_alpha |-> last_lora_alpha,
      lora_delta |-> lora_delta,
      hypernetwork_strength |-> hypernetwork_strength,
      scheduler |-> scheduler ]

\* ------------------------------------------------ generate_images (entry)

\* a caller calls generate_images(context, ...): req_args = locals(), images = []
Call(t, r) ==
    /\ pc[t] = "idle"
    /\ UNCHANGED storage
    /\ pc' = [pc EXCEPT ![t] = "seed"]
    /\ req' = [req EXCEPT ![t] = r]
    /\ local' = [local EXCEPT ![t] = [LocalInit EXCEPT !.pre = SharedState]]
    /\ served' = served + 1
    /\ UNCHANGED << config, latents, lora, hypernetwork_strength, scheduler, rng >>

\* seed_everything(seed); precision_scope = torch.autocast or nullcontext
SeedEverything(t) ==
    /\ pc[t] = "seed"
    /\ UNCHANGED storage
    /\ rng' = req[t].seed
    /\ local' = [local EXCEPT ![t].seeded = TRUE, ![t].precision = TRUE]
    /\ Goto(t, "check_model")
    /\ UNCHANGED << config, latents, lora, hypernetwork_strength, scheduler, req, served >>

\* the check made only after the hypernetwork strength was written
CheckModelLoadedLate(t) ==
    /\ pc[t] = "check_model"
    /\ UNCHANGED storage
    /\ IF "stable-diffusion" \notin models
       THEN /\ Raise(t, "ModelNotLoaded")
            /\ hypernetwork_strength' = IF "hypernetwork" \in models
                                        THEN req[t].hypernetwork_strength
                                        ELSE hypernetwork_strength
       ELSE /\ Goto(t, IF test_diffusers THEN "d_cmd" ELSE "hypernetwork")
            /\ UNCHANGED << local, hypernetwork_strength >>
    /\ UNCHANGED << config, latents, lora, scheduler, rng, req, served >>

\* the native path taken whatever context.test_diffusers says
CheckModelLoadedIgnoringBackend(t) ==
    /\ pc[t] = "check_model"
    /\ UNCHANGED storage
    /\ IF "stable-diffusion" \notin models
       THEN Raise(t, "ModelNotLoaded")
       ELSE /\ Goto(t, "hypernetwork")
            /\ UNCHANGED local
    /\ UNCHANGED << config, latents, lora, hypernetwork_strength, scheduler, rng, req, served >>

\* if "stable-diffusion" not in context.models: raise RuntimeError(...)
\* model = context.models["stable-diffusion"]; if context.test_diffusers: ...
CheckModelLoaded(t) ==
    /\ pc[t] = "check_model"
    /\ UNCHANGED storage
    /\ IF "stable-diffusion" \notin models
       THEN Raise(t, "ModelNotLoaded")
       ELSE /\ Goto(t, IF test_diffusers THEN "d_cmd" ELSE "hypernetwork")
            /\ UNCHANGED local
    /\ UNCHANGED << config, latents, lora, hypernetwork_strength, scheduler, rng, req, served >>

\* the strength written only if it is not zero
SetHypernetworkStrengthIfNonzero(t) ==
    /\ pc[t] = "hypernetwork"
    /\ UNCHANGED storage
    /\ IF "hypernetwork" \in models /\ req[t].hypernetwork_strength # 0
       THEN /\ hypernetwork_strength' = req[t].hypernetwork_strength
            /\ local' = [local EXCEPT ![t].hn_written = TRUE]
       ELSE UNCHANGED << hypernetwork_strength, local >>
    /\ Goto(t, "encode")
    /\ UNCHANGED << config, latents, lora, scheduler, rng, req, served >>

\* if "hypernetwork" in context.models:
\*     context.models["hypernetwork"]["hypernetwork_strength"] = hypernetwork_strength
SetHypernetworkStrength(t) ==
    /\ pc[t] = "hypernetwork"
    /\ UNCHANGED storage
    /\ IF "hypernetwork" \in models
       THEN /\ hypernetwork_strength' = req[t].hypernetwork_strength
            /\ local' = [local EXCEPT ![t].hn_written = TRUE]
       ELSE UNCHANGED << hypernetwork_strength, local >>
    /\ Goto(t, "encode")
    /\ UNCHANGED << config, latents, lora, scheduler, rng, req, served >>

\* img2img chosen for a mask alone, too
SelectGenerateFnByMask(init_image, init_image_mask) ==
    IF init_image = None /\ init_image_mask = None THEN "txt2img" ELSE "img2img"

\* generate_fn = txt2img if init_image is None else img2img
SelectGenerateFn(init_image, init_image_mask) ==
    IF init_image = None THEN "txt2img" ELSE "img2img"

\* cond, uncond = get_cond_and_uncond(prompt, negative_prompt, num_outputs, model)
\* generate_fn = ...
GetCondAndUncond(t) ==
    /\ pc[t] = "encode"
    /\ UNCHANGED storage
    /\ \E ok \in BOOLEAN :
         IF ok
         THEN LET fn == SelectGenerateFn(req[t].init_image, req[t].init_image_mask)
              IN /\ local' = [local EXCEPT ![t].encoded = TRUE, ![t].cond = TRUE,
                                           ![t].generate_fn = fn]
                 /\ Goto(t, fn)
         ELSE /\ pc' = [pc EXCEPT ![t] = "finally"]
              /\ local' = [local EXCEPT ![t].encoded = TRUE, ![t].cond = TRUE,
                                        ![t].exc = "EncoderError"]
    /\ UNCHANGED << config, latents, lora, hypernetwork_strength, scheduler, rng, req, served >>

\* the caller has the images or the exception of its call, and goes on
CallerContinues(t) ==
    /\ pc[t] = "done"
    /\ UNCHANGED storage
    /\ pc' = [pc EXCEPT ![t] = "idle"]
    /\ req' = [req EXCEPT ![t] = DefaultRequest]
    /\ local' = [local EXCEPT ![t] = LocalInit]
    /\ UNCHANGED << config, latents, lora, hypernetwork_strength, scheduler, rng, served >>

\* ------------------------------------------------------ the native path

\* what make_samples does with a sampler name and a callback: the name must be
\* in the native registry; the sampler, or the progress callback it calls at
\* every step, may raise; then the decoder may raise
SamplerOutcomes(name) ==
    IF name \in NativeSamplers
    THEN {"ok", "SamplerError", "CallbackCancel", "DecoderError"}
    ELSE {"UnsupportedSampler"}

\* samples = make_samples(**params): the latents the sampler returns are
\* determined by its parameters (seed, sampler, shape, source latent and mask),
\* by the global random source and by the model it runs, i.e. the weights with
\* the LoRA delta they carry and the hypernetwork at its stored strength
MakeSamples(r, latent, mask, rngv, delta, hn) ==
    [ seed |-> r.seed, sampler |-> r.sampler_name,
      shape |-> << r.height \div 8, r.width \div 8 >>,
      latent |-> latent, mask |-> mask,
      rng |-> rngv, weights |-> delta, hypernetwork |-> hn ]

\* the strength the hypernetwork of the context runs at
HypernetworkInEffect(stored) == IF "hypernetwork" \in models THEN stored ELSE 0

\* latent_samples_to_images(context, samples): one image per sample of the batch
LatentSamplesToImages(batch_size, samples) ==
    [i \in 1..batch_size |-> [index |-> i, color_profile |-> None, samples |-> samples]]

\* txt2img: samples = make_samples(**params);
\*          return latent_samples_to_images(context, samples)
Txt2Img(t) ==
    /\ pc[t] = "txt2img"
    /\ UNCHANGED storage
    /\ \E o \in SamplerOutcomes(req[t].sampler_name) :
         IF o = "ok"
         THEN LET samples == MakeSamples(req[t], NoTensor, NoTensor, rng, lora_delta,
                                         HypernetworkInEffect(hypernetwork_strength))
              IN
              /\ local' = [local EXCEPT ![t].sampled = TRUE,
                              ![t].batch = LatentSamplesToImages(req[t].num_outputs, samples)]
              /\ Goto(t, "return")
         ELSE /\ pc' = [pc EXCEPT ![t] = "finally"]
              /\ local' = [local EXCEPT ![t].sampled = TRUE, ![t].exc = o]
    /\ UNCHANGED << config, latents, lora, hypernetwork_strength, scheduler, rng, req, served >>

\* get_image_latent_and_mask(context, init_image, init_image_mask, width,
\* height, num_outputs): the latent and the mask tensor of these arguments
GetImageLatent(r) ==
    << "latent", r.init_image, r.width, r.height, r.num_outputs >>

GetImageMask(r) ==
    IF r.init_image_mask = None THEN NoTensor
    ELSE << "mask", r.init_image_mask, r.width, r.height, r.num_outputs >>

\* img2img: init_image = get_image(init_image); ...
\* if not hasattr(context, "init_image_latent") or context.init_image_latent is None:
Img2ImgCheckLatent(t) ==
    /\ pc[t] = "img2img"
    /\ UNCHANGED storage
    /\ local' = [local EXCEPT ![t].need_latent = (init_image_latent = NoTensor)]
    /\ Goto(t, IF init_image_latent = NoTensor THEN "img2img_encode" ELSE "img2img_params")
    /\ UNCHANGED << config, latents, lora, hypernetwork_strength, scheduler, rng, req, served >>

\* context.init_image_latent, context.init_image_mask_tensor =
\*     get_image_latent_and_mask(...)
Img2ImgStoreLatent(t) ==
    /\ pc[t] = "img2img_encode"
    /\ UNCHANGED storage
    /\ \E ok \in BOOLEAN :
         IF ok
         THEN /\ init_image_latent' = GetImageLatent(req[t])
              /\ init_image_mask_tensor' = GetImageMask(req[t])
              /\ local' = [local EXCEPT ![t].populated = TRUE]
              /\ Goto(t, "img2img_params")
         ELSE /\ Raise(t, "EncoderError")
              /\ UNCHANGED latents
    /\ UNCHANGED << config, lora, hypernetwork_strength, scheduler, rng, req, served >>

\* params.update({"steps": ..., "init_image_latent": context.init_image_latent,
\*                "mask": context.init_image_mask_tensor, "prompt_strength": ...})
Img2ImgParams(t) ==
    /\ pc[t] = "img2img_params"
    /\ UNCHANGED storage
    /\ local' = [local EXCEPT ![t].latent_arg = init_image_latent,
                              ![t].mask_arg = init_image_mask_tensor]
    /\ Goto(t, "img2img_sample")
    /\ UNCHANGED << config, latents, lora, hypernetwork_strength, scheduler, rng, req, served >>

\* the loop stopping one image short
RECURSIVE ApplyColorProfilesShort(_, _, _)
ApplyColorProfilesShort(images, init_image, i) ==
    IF i >= Len(images)
    THEN [images |-> images, transfers |-> <<>>]
    ELSE LET rest == ApplyColorProfilesShort(
                        [images EXCEPT ![i].color_profile = init_image],
                        init_image, i + 1)
         IN [images |-> rest.images, transfers |-> <<i>> \o rest.transfers]

\* for i, img in enumerate(images): images[i] = apply_color_profile(init_image, img)
RECURSIVE ApplyColorProfiles(_, _, _)
ApplyColorProfiles(images, init_image, i) ==
    IF i > Len(images)
    THEN [images |-> images, transfers |-> <<>>]
    ELSE LET rest == ApplyColorProfiles(
                        [images EXCEPT ![i].color_profile = init_image],
                        init_image, i + 1)
         IN [images |-> rest.images, transfers |-> <<i>> \o rest.transfers]

\* samples = make_samples(**params); images = latent_samples_to_images(...)
\* if preserve_init_image_color_profile: ...; return images
Img2ImgSample(t) ==
    /\ pc[t] = "img2img_sample"
    /\ UNCHANGED storage
    /\ \E o \in SamplerOutcomes(req[t].sampler_name) :
         IF o = "ok"
         THEN LET samples == MakeSamples(req[t], local[t].latent_arg, local[t].mask_arg,
                                         rng, lora_delta,
                                         HypernetworkInEffect(hypernetwork_strength))
                  images == LatentSamplesToImages(req[t].num_outputs, samples)
                  colored == ApplyColorProfiles(images, req[t].init_image, 1)
              IN /\ local' = IF req[t].preserve_init_image_color_profile
                             THEN [local EXCEPT ![t].sampled = TRUE,
                                                ![t].batch = colored.images,
                                                ![t].transfers = @ \o colored.transfers]
                             ELSE [local EXCEPT ![t].sampled = TRUE,
                                                ![t].batch = images]
                 /\ Goto(t, "return")
         ELSE /\ pc' = [pc EXCEPT ![t] = "finally"]
              /\ local' = [local EXCEPT ![t].sampled = TRUE, ![t].exc = o]
    /\ UNCHANGED << config, latents, lora, hypernetwork_strength, scheduler, rng, req, served >>

\* for _ in trange(1, desc="Sampling")
SamplingPasses == 1

\* the batch replacing the list instead of extending it
ReturnLastBatch(t) ==
    /\ pc[t] = "return"
    /\ UNCHANGED storage
    /\ local' = [local EXCEPT ![t].images = SubSeq(local[t].batch, 2, Len(local[t].batch)),
                              ![t].passes = @ + 1,
                              ![t].returned = TRUE]
    /\ Goto(t, "finally")
    /\ UNCHANGED << config, latents, lora, hypernetwork_strength, scheduler, rng, req, served >>

\* images += generate_fn(...); gc(context); and, the loop over, return images
Return(t) ==
    /\ pc[t] = "return"
    /\ UNCHANGED storage
    /\ IF local[t].passes + 1 < SamplingPasses
       THEN /\ local' = [local EXCEPT ![t].images = @ \o local[t].batch,
                                      ![t].passes = @ + 1]
            /\ Goto(t, local[t].generate_fn)
       ELSE /\ local' = [local EXCEPT ![t].images = @ \o local[t].batch,
                                      ![t].passes = @ + 1,
                                      ![t].returned = TRUE]
            /\ Goto(t, "finally")
    /\ UNCHANGED << config, latents, lora, hypernetwork_strength, scheduler, rng, req, served >>

\* the latent cleared at the end of the try block, not in a finally clause
ClearOnReturnOnly(t) ==
    /\ pc[t] = "finally"
    /\ UNCHANGED storage
    /\ IF local[t].returned
       THEN init_image_latent' = NoTensor /\ init_image_mask_tensor' = NoTensor
       ELSE UNCHANGED latents
    /\ Goto(t, "done")
    /\ UNCHANGED << config, lora, hypernetwork_strength, scheduler, rng, req, local, served >>

\* finally: context.init_image_latent, context.init_image_mask_tensor = None, None
\* and control returns to the caller, with the images or the exception
Finally(t) ==
    /\ pc[t] = "finally"
    /\ UNCHANGED storage
    /\ init_image_latent' = NoTensor
    /\ init_image_mask_tensor' = NoTensor
    /\ Goto(t, "done")
    /\ UNCHANGED << config, lora, hypernetwork_strength, scheduler, rng, req, local, served >>

\* ------------------------------------------- make_with_diffusers

\* resize_img(img, width, height, clamp_to_64=True): the image at the requested
\* size, each side rounded down to a multiple of 64
Clamp64 == 64

ResizeImg(img, width, height) ==
    << img, width - (width % Clamp64), height - (height % Clamp64) >>

\* the mask tested before the image
SelectOperationMaskFirst(init_image, init_image_mask) ==
    IF Truthy(init_image_mask)
    THEN "inpainting"
    ELSE (IF Truthy(init_image) THEN "img2img" ELSE "txt2img")

\* the operation the request's shape selects:
\* if init_image: "inpainting" if init_image_mask else "img2img"; else "txt2img"
SelectOperation(init_image, init_image_mask) ==
    IF Truthy(init_image)
    THEN (IF Truthy(init_image_mask) THEN "inpainting" ELSE "img2img")
    ELSE "txt2img"

\* cmd = {...}; if init_image: cmd["image"], cmd["strength"];
\* if init_image_mask: cmd["mask_image"]
BuildCmd(r) ==
    LET base == [ guidance_scale |-> "guidance_scale",
                  generator |-> r.seed,
                  width |-> r.width,
                  height |-> r.height,
                  num_inference_steps |-> "num_inference_steps",
                  num_images_per_prompt |-> r.num_outputs ]
        image == IF Truthy(r.init_image)
                 THEN [ image |-> ResizeImg(r.init_image, r.width, r.height),
                        strength |-> "prompt_strength" ]
                 ELSE <<>>
        mask == IF Truthy(r.init_image_mask)
                THEN [ mask_image |-> ResizeImg(r.init_image_mask, r.width, r.height) ]
                ELSE <<>>
    IN base @@ image @@ mask

\* del cmd[k] for every k of keys
Del(cmd, keys) == [k \in (DOMAIN cmd) \ keys |-> cmd[k]]

\* model = context.models["stable-diffusion"]; generator = ...; cmd = {...};
\* operation_to_apply = "inpainting" / "img2img" / "txt2img"
DBuildCmd(t) ==
    /\ pc[t] = "d_cmd"
    /\ UNCHANGED storage
    /\ local' = [local EXCEPT
                   ![t].cmd = BuildCmd(req[t]),
                   ![t].operation = SelectOperation(req[t].init_image,
                                                    req[t].init_image_mask)]
    /\ Goto(t, "d_operation")
    /\ UNCHANGED << config, latents, lora, hypernetwork_strength, scheduler, rng, req, served >>

\* the error "operation_to_apply not in model" raises
UnsupportedOperationError(model) ==
    IF "inpainting" \in model /\ Cardinality(model) = 1
    THEN "RequiresImageAndMask"
    ELSE "UnsupportedOperation"

\* if operation_to_apply not in model: raise ...
\* operation_to_apply = model[operation_to_apply]
DCheckOperation(t) ==
    /\ pc[t] = "d_operation"
    /\ UNCHANGED storage
    /\ IF local[t].operation \notin sd_model.keys
       THEN Raise(t, UnsupportedOperationError(sd_model.keys))
       ELSE /\ Goto(t, "d_sampler")
            /\ UNCHANGED local
    /\ UNCHANGED << config, latents, lora, hypernetwork_strength, scheduler, rng, req, served >>

\* the scheduler assigned without the registry being asked
DSetSchedulerUnchecked(t) ==
    /\ pc[t] = "d_sampler"
    /\ UNCHANGED storage
    /\ scheduler' = [scheduler EXCEPT ![local[t].operation] = req[t].sampler_name]
    /\ local' = [local EXCEPT ![t].sched_set = TRUE]
    /\ Goto(t, "d_adapt")
    /\ UNCHANGED << config, latents, lora, hypernetwork_strength, rng, req, served >>

\* the scheduler assigned before the registry is asked
DSetSchedulerBeforeCheck(t) ==
    /\ pc[t] = "d_sampler"
    /\ UNCHANGED storage
    /\ scheduler' = [scheduler EXCEPT ![local[t].operation] = req[t].sampler_name]
    /\ IF req[t].sampler_name \notin DiffusersSamplers
       THEN /\ pc' = [pc EXCEPT ![t] = "finally"]
            /\ local' = [local EXCEPT ![t].sched_set = TRUE,
                                      ![t].exc = "UnsupportedSampler"]
       ELSE /\ local' = [local EXCEPT ![t].sched_set = TRUE]
            /\ Goto(t, "d_adapt")
    /\ UNCHANGED << config, latents, lora, hypernetwork_strength, rng, req, served >>

\* if diffusers_samplers.samplers.get(sampler_name) is None: raise ...
\* operation_to_apply.scheduler = diffusers_samplers.samplers[sampler_name]
DSetScheduler(t) ==
    /\ pc[t] = "d_sampler"
    /\ UNCHANGED storage
    /\ IF req[t].sampler_name \notin DiffusersSamplers
       THEN /\ Raise(t, "UnsupportedSampler")
            /\ UNCHANGED scheduler
       ELSE /\ scheduler' = [scheduler EXCEPT ![local[t].operation] = req[t].sampler_name]
            /\ local' = [local EXCEPT ![t].sched_set = TRUE]
            /\ Goto(t, "d_adapt")
    /\ UNCHANGED << config, latents, lora, hypernetwork_strength, rng, req, served >>

\* the class of the pipeline object model[operation]
PipelineClass(model, operation) ==
    CASE operation = "txt2img" -> "Txt2Img"
      [] operation = "img2img" -> "Img2Img"
      [] operation = "inpainting" -> model.inpaint

\* the command cut by the kind of operation: no width and height with a source
\* image, no strength for inpainting
AdaptCmdByKind(cmd, class) ==
    LET sized == IF class \in {"InpaintLegacy", "Img2Img"}
                 THEN Del(cmd, {"width", "height"}) ELSE cmd
        cut == IF class \in {"InpaintLegacy", "Inpaint"}
               THEN Del(sized, {"strength"}) ELSE sized
    IN cut @@ [callback |-> "callback"]

\* if isinstance(op, InpaintPipelineLegacy) or isinstance(op, Img2ImgPipeline):
\*     del cmd["width"]; del cmd["height"]
\* elif isinstance(op, InpaintPipeline): del cmd["strength"]
\* cmd["callback"] = lambda ...
AdaptCmd(cmd, class) ==
    LET cut == CASE class \in {"InpaintLegacy", "Img2Img"} -> Del(cmd, {"width", "height"})
                 [] class = "Inpaint" -> Del(cmd, {"strength"})
                 [] OTHER -> cmd
    IN cut @@ [callback |-> "callback"]

DAdaptCmd(t) ==
    /\ pc[t] = "d_adapt"
    /\ UNCHANGED storage
    /\ local' = [local EXCEPT ![t].cmd =
                    AdaptCmd(@, PipelineClass(sd_model, local[t].operation))]
    /\ Goto(t, "d_lora")
    /\ UNCHANGED << config, latents, lora, hypernetwork_strength, scheduler, rng, req, served >>

\* apply_lora_model(context, alpha): adds alpha times the LoRA's delta to the
\* model's weights
ApplyLoraModel(delta, alpha) == delta + alpha

\* if context.models.get("lora"):
\*     if hasattr(context, "_last_lora_alpha"):
\*         apply_lora_model(context, -context._last_lora_alpha)
DLoraUndo(t) ==
    /\ pc[t] = "d_lora"
    /\ UNCHANGED storage
    /\ IF "lora" \notin models
       THEN /\ Goto(t, "d_compel")
            /\ UNCHANGED << local, lora_delta >>
       ELSE IF ~has_last_lora_alpha
       THEN /\ Goto(t, "d_lora_apply")
            /\ UNCHANGED << local, lora_delta >>
       ELSE \E ok \in BOOLEAN :
              IF ok
              THEN /\ lora_delta' = ApplyLoraModel(lora_delta, -last_lora_alpha)
                   /\ local' = [local EXCEPT ![t].lora_calls = @ + 1,
                                             ![t].undone = last_lora_alpha]
                   /\ Goto(t, "d_lora_apply")
              ELSE /\ pc' = [pc EXCEPT ![t] = "finally"]
                   /\ local' = [local EXCEPT ![t].lora_calls = @ + 1,
                                             ![t].exc = "LoraError"]
                   /\ UNCHANGED lora_delta
    /\ UNCHANGED << config, latents, has_last_lora_alpha, last_lora_alpha,
                    hypernetwork_strength, scheduler, rng, req, served >>

\*     apply_lora_model(context, lora_alpha)
DLoraApply(t) ==
    /\ pc[t] = "d_lora_apply"
    /\ UNCHANGED storage
    /\ \E ok \in BOOLEAN :
         IF ok
         THEN /\ lora_delta' = ApplyLoraModel(lora_delta, req[t].lora_alpha)
              /\ local' = [local EXCEPT ![t].lora_calls = @ + 1]
              /\ Goto(t, "d_lora_record")
         ELSE /\ pc' = [pc EXCEPT ![t] = "finally"]
              /\ local' = [local EXCEPT ![t].lora_calls = @ + 1,
                                        ![t].exc = "LoraError"]
              /\ UNCHANGED lora_delta
    /\ UNCHANGED << config, latents, has_last_lora_alpha, last_lora_alpha,
                    hypernetwork_strength, scheduler, rng, req, served >>

\*     context._last_lora_alpha = lora_alpha
DLoraRecord(t) ==
    /\ pc[t] = "d_lora_record"
    /\ UNCHANGED storage
    /\ has_last_lora_alpha' = TRUE
    /\ last_lora_alpha' = req[t].lora_alpha
    /\ Goto(t, "d_compel")
    /\ UNCHANGED << config, latents, lora_delta, hypernetwork_strength, scheduler,
                    rng, req, local, served >>

\* the conditioning compel makes of the prompt and the negative prompt
PromptEmbeds ==
    [ prompt_embeds |-> "prompt", negative_prompt_embeds |-> "negative_prompt" ]

\* compel = model["compel"]; cmd["prompt_embeds"] = compel(prompt);
\* cmd["negative_prompt_embeds"] = compel(negative_prompt); pad both
DCompel(t) ==
    /\ pc[t] = "d_compel"
    /\ UNCHANGED storage
    /\ IF "compel" \notin sd_model.keys
       THEN Raise(t, "KeyError")
       ELSE \E ok \in BOOLEAN :
              IF ok
              THEN /\ local' = [local EXCEPT
                                  ![t].encoded = TRUE,
                                  ![t].cmd = @ @@ PromptEmbeds]
                   /\ Goto(t, "d_invoke")
              ELSE /\ pc' = [pc EXCEPT ![t] = "finally"]
                   /\ local' = [local EXCEPT ![t].encoded = TRUE,
                                             ![t].exc = "EncoderError"]
    /\ UNCHANGED << config, latents, lora, hypernetwork_strength, scheduler, rng, req, served >>

\* operation_to_apply(**cmd): what the pipeline generates is determined by its
\* command, its scheduler, the global random source and the weights it runs
PipelineSamples(cmd, sched, rngv, delta) ==
    [ cmd |-> cmd, scheduler |-> sched, rng |-> rngv, weights |-> delta ]

\* return operation_to_apply(**cmd).images: the pipeline, or the progress
\* callback it calls at every step, may raise
DInvoke(t) ==
    /\ pc[t] = "d_invoke"
    /\ UNCHANGED storage
    /\ \E o \in {"ok", "PipelineError", "CallbackCancel"} :
         IF o = "ok"
         THEN local' = [local EXCEPT
                          ![t].invoked = local[t].operation,
                          ![t].returned = TRUE,
                          ![t].images = LatentSamplesToImages(
                                            local[t].cmd["num_images_per_prompt"],
                                            PipelineSamples(local[t].cmd,
                                                            scheduler[local[t].operation],
                                                            rng, lora_delta))]
         ELSE local' = [local EXCEPT ![t].invoked = local[t].operation,
                                     ![t].exc = o]
    /\ Goto(t, "finally")
    /\ UNCHANGED << config, latents, lora, hypernetwork_strength, scheduler, rng, req, served >>

\* ------------------------------------------------------ save_dicts

\* Python strings are sequences of characters: iterating one gives its
\* one-character strings
Txt == << "t", "x", "t" >>
Json == << "j", "s", "o", "n" >>
Embed == << "e", "m", "b", "e", "d" >>
Png == << "p", "n", "g" >>

\* a str object, a list of str objects, and the class str itself
Str(chars) == [type |-> "str", chars |-> chars]
List(items) == [type |-> "list", items |-> items]
StrClass == [type |-> "type", name |-> "str"]

\* str.lower()
LowerChar(c) ==
    CASE c = "E" -> "e" [] c = "G" -> "g" [] c = "J" -> "j" [] c = "N" -> "n"
      [] c = "O" -> "o" [] c = "P" -> "p" [] c = "S" -> "s" [] c = "T" -> "t"
      [] c = "X" -> "x" [] OTHER -> c

Lower(chars) == [k \in DOMAIN chars |-> LowerChar(chars[k])]

\* the output_format arguments: a format name as a string, lists of format
\* names, the empty list, the class str
OutputFormats ==
    { StrClass, Str(Txt), Str(Json), Str(Embed), Str(<< "T", "X", "T" >>),
      List(<< Str(Txt) >>), List(<< Str(<< "J", "S", "O", "N" >>) >>),
      List(<< Str(Txt), Str(Json) >>), List(<< Str(Embed), Str(Txt) >>),
      List(<< >>) }

\* the arguments of one save_dicts call; file_name is a string or a function
\* of the index
SaveArgs ==
    [ entries : { [k \in 1..n |-> "metadata"] : n \in 0..MaxEntries },
      dir_path : {None, "dir"},
      file_name : { [callable |-> FALSE, name |-> "data"],
                    [callable |-> TRUE, name |-> "fn"] },
      output_format : OutputFormats,
      file_format : { Str(Png), Str(<< "J", "P", "E", "G" >>) } ]

\* "x is str": the object x is the class str
IsStr(x) == x = StrClass

\* [output_format.lower()] if output_format is str
\*                         else [f.lower() for f in output_format]
\* (the first branch, taken for the class str only, fails: str.lower() is
\* called with no object)
NormaliseFormats(output_format) ==
    IF IsStr(output_format)
    THEN [exc |-> "TypeError", formats |-> <<>>]
    ELSE IF output_format.type = "str"
         THEN [exc |-> None,
               formats |-> [k \in DOMAIN output_format.chars |->
                               Lower(<< output_format.chars[k] >>)]]
         ELSE [exc |-> None,
               formats |-> [k \in DOMAIN output_format.items |->
                               Lower(output_format.items[k].chars)]]

\* metadata_file_types = {'json': save_json_metadata, 'txt': save_text_metadata}
MetadataFileTypes == { Json, Txt }

\* file_name(i) if callable(file_name) else f"{file_name}_{i}"
ActualFileName(file_name, i) ==
    IF file_name.callable THEN << file_name.name, "(", i, ")" >>
    ELSE << file_name.name, "_", i >>

\* os.path.join(dir_path, actual_file_name) and f"{path}.{ext}"
File(dir_path, actual_file_name, ext) ==
    [dir |-> dir_path, name |-> actual_file_name, ext |-> ext]

\* a caller calls save_dicts(entries, dir_path, file_name, output_format, file_format)
SaveDictsCall ==
    /\ save.pc = "idle"
    /\ save.calls < MaxSaves
    /\ \E a \in SaveArgs :
          save' = [SaveInit EXCEPT !.pc = "dir", !.calls = save.calls + 1,
                                   !.entries = a.entries, !.dir_path = a.dir_path,
                                   !.file_name = a.file_name,
                                   !.output_format = a.output_format,
                                   !.file_format = a.file_format]
    /\ UNCHANGED << generation, fs >>

\* if dir_path is None: return
\* os.makedirs(dir_path, exist_ok=True)
SaveMakeDirs ==
    /\ save.pc = "dir"
    /\ IF save.dir_path = None
       THEN /\ save' = [save EXCEPT !.pc = "done"]
            /\ UNCHANGED fs
       ELSE /\ save' = [save EXCEPT !.pc = "formats"]
            /\ fs' = [fs EXCEPT !.dirs = @ \cup {save.dir_path}]
    /\ UNCHANGED generation

\* output_format = ...; if len(output_format) == 0: return
SaveNormaliseFormats ==
    /\ save.pc = "formats"
    /\ LET normalised == NormaliseFormats(save.output_format)
       IN IF normalised.exc # None
          THEN save' = [save EXCEPT !.pc = "done", !.exc = normalised.exc]
          ELSE IF Len(normalised.formats) = 0
          THEN save' = [save EXCEPT !.pc = "done", !.formats = normalised.formats]
          ELSE save' = [save EXCEPT !.pc = "loop", !.formats = normalised.formats]
    /\ UNCHANGED << generation, fs >>

\* for i, metadata in enumerate(entries): the loop is over, or the next entry
\* gets its actual_file_name and path
SaveNextEntry ==
    /\ save.pc = "loop"
    /\ save.j > Len(save.formats) \/ save.i >= Len(save.entries)
    /\ IF save.i >= Len(save.entries) \/ save.i + 1 >= Len(save.entries)
       THEN save' = [save EXCEPT !.pc = "done"]
       ELSE save' = [save EXCEPT !.i = @ + 1, !.j = 1]
    /\ UNCHANGED << generation, fs >>

\* for format in output_format: one iteration, on entry i
\*     if format == "embed": the image file is opened and saved again with
\*         the metadata in it (Image.open raises if there is no such image)
\*     elif format in metadata_file_types: with open(f"{path}.{format}", "w") ...
SaveEntryFormat ==
    /\ save.pc = "loop"
    /\ save.i < Len(save.entries)
    /\ save.j <= Len(save.formats)
    /\ LET format == save.formats[save.j]
           name == ActualFileName(save.file_name, save.i)
           image == File(save.dir_path, name, Lower(save.file_format.chars))
           file == File(save.dir_path, name, format)
       IN IF format = Embed
          THEN \E found \in BOOLEAN :
                 IF found
                 THEN /\ save' = [save EXCEPT !.j = @ + 1]
                      /\ fs' = [fs EXCEPT !.files = @ \cup {image}]
                 ELSE /\ save' = [save EXCEPT !.pc = "done", !.exc = "FileNotFoundError"]
                      /\ UNCHANGED fs
          ELSE IF format \in MetadataFileTypes
          THEN /\ save' = [save EXCEPT !.j = @ + 1, !.written = Append(@, file)]
               /\ fs' = [fs EXCEPT !.files = @ \cup {file}]
          ELSE /\ save' = [save EXCEPT !.j = @ + 1]
               /\ UNCHANGED fs
    /\ UNCHANGED generation

\* the caller has the return or the exception of its call, and goes on
SaveCallerContinues ==
    /\ save.pc = "done"
    /\ save' = [SaveInit EXCEPT !.calls = save.calls]
    /\ UNCHANGED << generation, fs >>

\* ------------------------------------------------------ specifications

EntryStep(t) ==
    \/ SeedEverything(t)
    \/ CheckModelLoaded(t)
    \/ Finally(t)
    \/ CallerContinues(t)

NativeStep(t) ==
    \/ SetHypernetworkStrength(t)
    \/ GetCondAndUncond(t)
    \/ Txt2Img(t)
    \/ Img2ImgCheckLatent(t)
    \/ Img2ImgStoreLatent(t)
    \/ Img2ImgParams(t)
    \/ Img2ImgSample(t)
    \/ Return(t)

DiffusersStep(t) ==
    \/ DBuildCmd(t)
    \/ DCheckOperation(t)
    \/ DSetScheduler(t)
    \/ DAdaptCmd(t)
    \/ DLoraUndo(t)
    \/ DLoraApply(t)
    \/ DLoraRecord(t)
    \/ DCompel(t)
    \/ DInvoke(t)

\* a caller calls generate_images with one of the requests of R, the n-th
\* call at most
Calls(t, R, n) ==
    /\ served < n
    /\ pc[t] = "idle"
    /\ UNCHANGED storage
    /\ \E r \in R : Call(t, r)

\* one request, any request, on any context
Next ==
    \/ Calls("t1", Requests, MaxRequests)
    \/ EntryStep("t1")
    \/ NativeStep("t1")
    \/ DiffusersStep("t1")

Spec == Init /\ [][Next]_vars

\* requests served one after the other: the caller calls again only after
\* the previous call returned
SeqNext ==
    \/ Calls("t1", SeqRequests, MaxSeqRequests)
    \/ EntryStep("t1")
    \/ NativeStep("t1")
    \/ DiffusersStep("t1")

SeqSpec == Init /\ [][SeqNext]_vars

\* two callers on the same context, nothing serialising them
ConcNext ==
    \E t \in Threads :
        \/ Calls(t, ConcRequests, MaxConcRequests)
        \/ EntryStep(t)
        \/ NativeStep(t)
        \/ DiffusersStep(t)

ConcSpec == Init /\ [][ConcNext]_vars

\* longer sequences of requests on the diffusers backend of a context with a
\* LoRA registered
LoraInit ==
    /\ Init
    /\ test_diffusers
    /\ models = {"stable-diffusion", "lora"}

LoraNext ==
    \/ Calls("t1", LoraRequests, MaxLoraRequests)
    \/ EntryStep("t1")
    \/ DiffusersStep("t1")

LoraSpec == LoraInit /\ [][LoraNext]_vars

\* calls of save_dicts, one after the other; no image is being generated
SaveDictsInit ==
    /\ Init
    /\ ~test_diffusers
    /\ models = {}

SaveNext ==
    \/ SaveDictsCall
    \/ SaveMakeDirs
    \/ SaveNormaliseFormats
    \/ SaveNextEntry
    \/ SaveEntryFormat
    \/ SaveCallerContinues

SaveSpec == SaveDictsInit /\ [][SaveNext]_vars

\* ------------------------------------------------------------- claims

Running(t) == pc[t] \notin {"idle", "done"}
Returned(t) == pc[t] = "done" /\ local[t].returned
Raised(t) == pc[t] = "done" /\ local[t].exc # None
OnDiffusers == test_diffusers /\ "stable-diffusion" \in models
OnNative == ~test_diffusers /\ "stable-diffusion" \in models

C2_NothingBeforeModelCheck ==
    \A t \in Threads :
        local[t].exc = "ModelNotLoaded" =>
            /\ ~local[t].seeded /\ ~local[t].precision
            /\ ~local[t].hn_written /\ local[t].lora_calls = 0
            /\ ~local[t].encoded /\ ~local[t].sampled /\ local[t].invoked = None

\* C2 (amended): when the model-not-loaded error is raised the global random
\* source has been seeded with the request's seed and the precision scope
\* chosen, and nothing else was done: the hypernetwork strength, the LoRA
\* state, the schedulers and the latent cache are as they were, and no
\* encoder, sampler or pipeline was called.
C2_OnlySeedBeforeModelCheck ==
    \A t \in Threads :
        local[t].exc = "ModelNotLoaded" =>
            /\ local[t].seeded /\ local[t].precision /\ rng = req[t].seed
            /\ ~local[t].hn_written /\ local[t].lora_calls = 0
            /\ ~local[t].sched_set /\ ~local[t].populated
            /\ ~local[t].encoded /\ ~local[t].sampled /\ local[t].invoked = None
            /\ hypernetwork_strength = 0
            /\ lora_delta = 0 /\ ~has_last_lora_alpha
            /\ \A k \in PipelineKinds : scheduler[k] = "default"
            /\ init_image_latent = NoTensor /\ init_image_mask_tensor = NoTensor

\* a rejected request that asked for a hypernetwork strength on a context
\* with a hypernetwork registered
C2_Witness ==
    \E t \in Threads :
        /\ Raised(t) /\ local[t].exc = "ModelNotLoaded"
        /\ "hypernetwork" \in models /\ req[t].hypernetwork_strength > 0
        /\ rng = req[t].seed

\* C3: on the diffusers backend with a LoRA registered, after a request that
\* returned its images the net strength patched into the weights is that
\* request's lora_alpha, whatever requests came before.
C3_NoAccumulation ==
    \A t \in Threads :
        (OnDiffusers /\ "lora" \in models /\ Returned(t)) =>
            lora_delta = req[t].lora_alpha

\* C4: the adapter patches of two requests on one context are serialised, so
\* once both calls have returned their images the net strength patched into
\* the weights is the strength recorded last.
C4_ExclusiveAdapterPatch ==
    (OnDiffusers /\ "lora" \in models /\ \A t \in Threads : Returned(t)) =>
        lora_delta = last_lora_alpha

\* C5: the sampler of an image-to-image request is given the latent and the
\* mask tensor of that request's own init_image, init_image_mask, width,
\* height and num_outputs.
C5_LatentOwnedByRequest ==
    \A t \in Threads :
        (local[t].generate_fn = "img2img" /\ local[t].sampled) =>
            /\ local[t].latent_arg = GetImageLatent(req[t])
            /\ local[t].mask_arg = GetImageMask(req[t])

\* C6: the diffusers pipeline that is invoked is the one the presence of the
\* source image and the mask selects: text-to-image without init_image,
\* image-to-image with init_image alone, inpainting with init_image and mask.
C6_PipelineByRequestShape ==
    \A t \in Threads :
        local[t].invoked # None =>
            /\ local[t].invoked \in sd_model.keys
            /\ req[t].init_image = None => local[t].invoked = "txt2img"
            /\ (req[t].init_image # None /\ req[t].init_image_mask = None) =>
                   local[t].invoked = "img2img"
            /\ (req[t].init_image # None /\ req[t].init_image_mask # None) =>
                   local[t].invoked = "inpainting"

\* an inpainting request served by the inpainting pipeline
C6_Witness ==
    \E t \in Threads :
        /\ Returned(t) /\ local[t].invoked = "inpainting"
        /\ req[t].init_image # None /\ req[t].init_image_mask # None

\* C7: a request for a pipeline kind the model does not expose fails before
\* any pipeline is invoked, with the "requires an initial image and mask"
\* error exactly when inpainting is the only pipeline kind the model exposes,
\* and with the generic error otherwise.
C7_DistinctInpaintingOnlyError ==
    \A t \in Threads :
        local[t].exc \in {"UnsupportedOperation", "RequiresImageAndMask"} =>
            /\ local[t].invoked = None
            /\ local[t].exc = "RequiresImageAndMask" <=>
                   sd_model.keys \cap PipelineKinds = {"inpainting"}

C9_NoInitImageIsTxt2Img ==
    \A t \in Threads :
        (Running(t) \/ pc[t] = "done") /\ req[t].init_image = None =>
            /\ pc[t] \notin {"img2img", "img2img_encode", "img2img_params", "img2img_sample"}
            /\ local[t].generate_fn \in {None, "txt2img"}
            /\ local[t].operation \in {None, "txt2img"}
            /\ local[t].invoked \in {None, "txt2img"}
            /\ ~local[t].populated
            /\ local[t].latent_arg = NoTensor
            /\ local[t].transfers = <<>>
            /\ \A i \in DOMAIN local[t].images : local[t].images[i].color_profile = None

\* a native request with a mask and the flag but no init_image, served
C9_Witness ==
    \E t \in Threads :
        /\ OnNative /\ Returned(t) /\ req[t].init_image = None
        /\ req[t].init_image_mask # None
        /\ req[t].preserve_init_image_color_profile
        /\ local[t].generate_fn = "txt2img"

\* C10: a request that returned its images transferred the color profile once
\* to each of its num_outputs images, in order, if it ran on the native path
\* with an init_image and preserve_init_image_color_profile set, and to none
\* otherwise.
C10_ColorProfileTransfers ==
    \A t \in Threads :
        Returned(t) =>
            LET n == req[t].num_outputs
                on == /\ ~test_diffusers
                      /\ req[t].init_image # None
                      /\ req[t].preserve_init_image_color_profile
            IN /\ Len(local[t].images) = n
               /\ local[t].transfers = IF on THEN [i \in 1..n |-> i] ELSE <<>>
               /\ \A i \in 1..n :
                     local[t].images[i].color_profile =
                         IF on THEN req[t].init_image ELSE None

\* a native image-to-image request with the flag set and several outputs
C10_Witness ==
    \E t \in Threads :
        /\ Returned(t) /\ ~test_diffusers
        /\ req[t].preserve_init_image_color_profile
        /\ req[t].num_outputs = MaxOutputs
        /\ Len(local[t].transfers) = MaxOutputs

\* the batch generate_images returns for request r on a context that holds
\* these models and has served nothing before
FreshOutput(r) ==
    LET fresh == [ rng |-> r.seed, lora_delta |-> 0, has_last_lora_alpha |-> FALSE ]
        operation == SelectOperation(r.init_image, r.init_image_mask)
        cmd == AdaptCmd(BuildCmd(r), PipelineClass(sd_model, operation)) @@ PromptEmbeds
        patched == IF "lora" \in models
                   THEN ApplyLoraModel(fresh.lora_delta, r.lora_alpha)
                   ELSE fresh.lora_delta
    IN IF test_diffusers
       THEN LatentSamplesToImages(r.num_outputs,
                PipelineSamples(cmd, r.sampler_name, fresh.rng, patched))
       ELSE LatentSamplesToImages(r.num_outputs,
                MakeSamples(r, NoTensor, NoTensor, fresh.rng, fresh.lora_delta,
                            HypernetworkInEffect(r.hypernetwork_strength)))

\* C11: a request without init_image that returned its images returned the
\* batch the same request returns on a fresh context with the same models:
\* the batch depends on the request and the loaded models, not on the requests
\* served before.
C11_Deterministic ==
    \A t \in Threads :
        (Returned(t) /\ req[t].init_image = None) =>
            local[t].images = FreshOutput(req[t])

\* C12: a request that returned, on either backend, returned exactly
\* num_outputs images: natively from one pass of the sampling loop whose batch
\* was added to the list once, on the diffusers backend from one pipeline
\* call asked for num_outputs images per prompt; a request that raised
\* returned no list.
C12_ResultLength ==
    \A t \in Threads :
        /\ Returned(t) =>
              /\ local[t].exc = None
              /\ Len(local[t].images) = req[t].num_outputs
              /\ \A i \in 1..req[t].num_outputs : local[t].images[i].index = i
              /\ IF test_diffusers
                 THEN /\ local[t].invoked # None /\ local[t].passes = 0
                      /\ local[t].cmd["num_images_per_prompt"] = req[t].num_outputs
                 ELSE /\ local[t].sampled /\ local[t].passes = 1
                      /\ local[t].images = local[t].batch
        /\ local[t].exc # None => ~local[t].returned /\ local[t].images = <<>>

\* a native request for several images, served
C12_Witness ==
    \E t \in Threads :
        /\ Returned(t) /\ ~test_diffusers
        /\ req[t].num_outputs = MaxOutputs /\ Len(local[t].images) = MaxOutputs

\* C13: every dimension in the command a diffusers pipeline is invoked with
\* is a multiple of 64: the sides of the resized source image and mask, and
\* the width and height entries still in the command, which equal the sides
\* of the resized source image.
C13_DimensionsMultiplesOf64 ==
    \A t \in Threads :
        local[t].invoked # None =>
            LET cmd == local[t].cmd
                Has(k) == k \in DOMAIN cmd
            IN /\ Has("image") =>
                      cmd["image"][2] % Clamp64 = 0 /\ cmd["image"][3] % Clamp64 = 0
               /\ Has("mask_image") =>
                      cmd["mask_image"][2] % Clamp64 = 0 /\ cmd["mask_image"][3] % Clamp64 = 0
               /\ Has("width") =>
                      /\ cmd["width"] % Clamp64 = 0
                      /\ Has("image") => cmd["width"] = cmd["image"][2]
               /\ Has("height") =>
                      /\ cmd["height"] % Clamp64 = 0
                      /\ Has("image") => cmd["height"] = cmd["image"][3]

\* the class of the pipeline a request invoked
InvokedClass(t) == PipelineClass(sd_model, local[t].invoked)

InCmd(t, k) == k \in DOMAIN local[t].cmd

\* C14 (as stated): an image-to-image pipeline is invoked without width and
\* height, an inpainting pipeline, legacy or not, without strength, and a
\* text-to-image pipeline with width and height.
C14_AdaptedPerPipelineKind ==
    \A t \in Threads :
        local[t].invoked # None =>
            /\ InvokedClass(t) = "Img2Img" => ~InCmd(t, "width") /\ ~InCmd(t, "height")
            /\ InvokedClass(t) \in {"Inpaint", "InpaintLegacy"} => ~InCmd(t, "strength")
            /\ InvokedClass(t) = "Txt2Img" => InCmd(t, "width") /\ InCmd(t, "height")

\* C14 (amended): an image-to-image pipeline and a legacy inpainting pipeline
\* are invoked without width and height and with the strength; a non-legacy
\* inpainting pipeline is invoked without strength and with width and height;
\* a text-to-image pipeline is invoked with width and height.
C14_AdaptedPerPipelineClass ==
    \A t \in Threads :
        local[t].invoked # None =>
            /\ InvokedClass(t) \in {"Img2Img", "InpaintLegacy"} =>
                   /\ ~InCmd(t, "width") /\ ~InCmd(t, "height")
                   /\ InCmd(t, "strength")
            /\ InvokedClass(t) = "Inpaint" =>
                   /\ ~InCmd(t, "strength")
                   /\ InCmd(t, "width") /\ InCmd(t, "height")
            /\ InvokedClass(t) = "Txt2Img" => InCmd(t, "width") /\ InCmd(t, "height")

\* an inpainting request served by a legacy inpainting pipeline
C14_Witness ==
    \E t \in Threads :
        /\ Returned(t) /\ local[t].invoked = "inpainting"
        /\ InvokedClass(t) = "InpaintLegacy"
        /\ InCmd(t, "strength") /\ ~InCmd(t, "width")

\* the files save_dicts is documented to write for entries and a format name
ExpectedFiles(dir_path, file_name, entries, ext) ==
    [k \in 1..Len(entries) |-> File(dir_path, ActualFileName(file_name, k - 1), ext)]

\* C15: a save_dicts call given output_format as the string 'txt' or 'json'
\* that returned has written, for a dir_path, one file per entry, named by
\* the index and with the format as its extension, in the order of the
\* entries, and for dir_path None no file and no directory.
C15_MetadataFilePerEntry ==
    ( /\ save.pc = "done" /\ save.exc = None
      /\ save.output_format \in {Str(Txt), Str(Json)} ) =>
        IF save.dir_path = None
        THEN save.written = <<>> /\ fs.files = {} /\ fs.dirs = {}
        ELSE /\ save.written = ExpectedFiles(save.dir_path, save.file_name,
                                             save.entries, save.output_format.chars)
             /\ fs.files = { save.written[k] : k \in DOMAIN save.written }

\* C16: a request on a context with test_diffusers set does nothing of the
\* native path (no hypernetwork strength write, no get_cond_and_uncond, no
\* generate_fn, no sampling, no latent stored) and returns the images of its
\* pipeline call as they are; a request on a context without it does nothing
\* of make_with_diffusers (no apply_lora_model call, _last_lora_alpha and the
\* weights as the call found them, no scheduler assigned, no pipeline called).
C16_BackendPathsExclusive ==
    \A t \in Threads :
        (Running(t) \/ pc[t] = "done") =>
            IF test_diffusers
            THEN /\ ~local[t].hn_written
                 /\ hypernetwork_strength = local[t].pre.hypernetwork_strength
                 /\ ~local[t].cond /\ local[t].generate_fn = None
                 /\ ~local[t].sampled /\ local[t].passes = 0
                 /\ ~local[t].populated /\ init_image_latent = NoTensor
                 /\ local[t].transfers = <<>>
                 /\ local[t].returned =>
                        local[t].images =
                            LatentSamplesToImages(local[t].cmd["num_images_per_prompt"],
                                PipelineSamples(local[t].cmd, scheduler[local[t].invoked],
                                                rng, lora_delta))
            ELSE /\ local[t].lora_calls = 0
                 /\ has_last_lora_alpha = local[t].pre.has_last_lora_alpha
                 /\ last_lora_alpha = local[t].pre.last_lora_alpha
                 /\ lora_delta = local[t].pre.lora_delta
                 /\ ~local[t].sched_set /\ scheduler = local[t].pre.scheduler
                 /\ local[t].operation = None /\ local[t].cmd = <<>>
                 /\ local[t].invoked = None

\* a diffusers request that asked for a hypernetwork strength on a context
\* with a hypernetwork, served
C16_Witness ==
    \E t \in Threads :
        /\ Returned(t) /\ test_diffusers
        /\ "hypernetwork" \in models /\ req[t].hypernetwork_strength > 0
        /\ req[t].init_image # None /\ local[t].invoked = "img2img"

\* a native request on a loaded model that is past line 84
PastHypernetworkStep(t) ==
    /\ OnNative
    /\ pc[t] \notin {"idle", "seed", "check_model", "hypernetwork"}

\* C17 (as stated): on the native path the stored hypernetwork strength is
\* written exactly when a hypernetwork is registered and the requested
\* strength is not zero, and is then the requested strength; otherwise it is
\* as the call found it.
C17_WrittenWhenRegisteredAndNonzero ==
    \A t \in Threads :
        PastHypernetworkStep(t) =>
            LET on == "hypernetwork" \in models /\ req[t].hypernetwork_strength # 0
            IN /\ local[t].hn_written <=> on
               /\ hypernetwork_strength =
                      IF on THEN req[t].hypernetwork_strength
                      ELSE local[t].pre.hypernetwork_strength

\* C17 (amended): on the native path the stored hypernetwork strength is
\* written exactly when a hypernetwork is registered, whatever the requested
\* strength, zero included, and is then the requested strength; with no
\* hypernetwork registered it is as the call found it.
C17_WrittenWhenRegistered ==
    \A t \in Threads :
        PastHypernetworkStep(t) =>
            LET on == "hypernetwork" \in models
            IN /\ local[t].hn_written <=> on
               /\ hypernetwork_strength =
                      IF on THEN req[t].hypernetwork_strength
                      ELSE local[t].pre.hypernetwork_strength

\* a request with strength zero served after one with a nonzero strength:
\* the stored strength is back to zero
C17_Witness ==
    \E t \in Threads :
        /\ Returned(t) /\ OnNative /\ "hypernetwork" \in models
        /\ req[t].hypernetwork_strength = 0
        /\ local[t].pre.hypernetwork_strength = MaxAlpha
        /\ hypernetwork_strength = 0

\* C18: whenever no request is in progress, the net LoRA strength patched
\* into the weights is context._last_lora_alpha, or zero if that was never
\* set, whatever the requests served before did, failing ones included.
C18_AdapterStateConsistent ==
    (\A t \in Threads : ~Running(t)) =>
        lora_delta = IF has_last_lora_alpha THEN last_lora_alpha ELSE 0

\* the errors make_with_diffusers rejects a request with
Rejections == {"UnsupportedOperation", "RequiresImageAndMask", "UnsupportedSampler"}

\* C19: a diffusers request rejected for an unsupported operation or an
\* unsupported sampler has called apply_lora_model not once, has assigned no
\* scheduler and invoked no pipeline: _last_lora_alpha, the weights and every
\* pipeline's scheduler are as the call found them.
C19_RejectionLeavesSharedState ==
    \A t \in Threads :
        (test_diffusers /\ local[t].exc \in Rejections) =>
            /\ local[t].lora_calls = 0 /\ local[t].undone = 0
            /\ has_last_lora_alpha = local[t].pre.has_last_lora_alpha
            /\ last_lora_alpha = local[t].pre.last_lora_alpha
            /\ lora_delta = local[t].pre.lora_delta
            /\ ~local[t].sched_set /\ scheduler = local[t].pre.scheduler
            /\ hypernetwork_strength = local[t].pre.hypernetwork_strength
            /\ local[t].invoked = None

\* a request with an unknown sampler rejected on a context whose weights
\* carry the LoRA of an earlier request and whose pipeline has that
\* request's scheduler
C19_Witness ==
    \E t \in Threads :
        /\ Raised(t) /\ local[t].exc = "UnsupportedSampler"
        /\ local[t].pre.has_last_lora_alpha /\ local[t].pre.lora_delta > 0
        /\ local[t].pre.scheduler[local[t].operation] = "euler_a"
        /\ req[t].lora_alpha = 0

\* C20: the command the text-to-image pipeline is invoked with has no source
\* image, no mask and no strength entry, whatever init_image and
\* init_image_mask the request gave.
C20_Txt2ImgCmdWithoutImageEntries ==
    \A t \in Threads :
        local[t].invoked = "txt2img" =>
            /\ ~InCmd(t, "image")
            /\ ~InCmd(t, "mask_image")
            /\ ~InCmd(t, "strength")

====
